---- MODULE Spec2Model ----
(***************************************************************************)
(* The Histogram class of movement_validation/statistics/histogram.py:     *)
(* grid-snapped bin boundaries (compute_covering_bins), the lazily cached  *)
(* derived properties, the create_histogram factory and                    *)
(* merged_histogram_factory.                                               *)
(*                                                                         *)
(* Numbers.  Measurements, bin edges and bin widths are real numbers in    *)
(* the program.  Here every real is an exact integer multiple of one       *)
(* quantum, and bin_width is an even number of quanta so that bin_width/2  *)
(* is representable.  Quotients that need not be whole (means, densities,  *)
(* variances) are kept as exact fractions [num, den].  The arithmetic is   *)
(* therefore the exact arithmetic the floating-point code approximates;    *)
(* NaN and infinities are not part of the data domain.                     *)
(***************************************************************************)
EXTENDS Integers, Sequences, FiniteSets, TLC

VARIABLES
    specs,      \* the shared Specs object: [bin_width]
    hists,      \* the per-video Histogram objects alive, in creation order
    merged,     \* <<>> or <<the Histogram merged_histogram_factory returned>>
    ret         \* what the last call did: [op, data, outcome, self]

vars == <<specs, hists, merged, ret>>

---------------------------------------------------------------------------
(* Bounds of the model *)

\* longest data array given to create_histogram in Spec
MaxLen == 2
\* total number of samples held by the histograms of SpecMerge
MaxSamples == 3

\* config.MAX_NUMBER_BINS, scaled down to a limit small data can exceed
MAX_NUMBER_BINS == 3

\* the bin widths a Specs object may carry, in quanta
BinWidths == {2, 4}

\* data values, in quanta: they span MAX_NUMBER_BINS + 1 bins of the
\* narrowest width around zero, so that both outcomes of the bin-count
\* check occur
Values == (0 - MAX_NUMBER_BINS) .. MAX_NUMBER_BINS

---------------------------------------------------------------------------
(* Python / numpy values *)

\* an unset attribute is <<>>, a set one is <<value>>
Unset == <<>>
Some(v) == <<v>>
IsSet(slot) == Len(slot) > 0

\* the sequence <<F(1), ..., F(n)>>
RECURSIVE Seq1(_, _)
Seq1(F(_), n) == IF n <= 0 THEN <<>> ELSE Append(Seq1(F, n - 1), F(n))

RECURSIVE SumSeq(_)
SumSeq(s) == IF s = <<>> THEN 0 ELSE Head(s) + SumSeq(Tail(s))

Range(s) == {s[i] : i \in DOMAIN s}
min(s) == CHOOSE x \in Range(s) : \A y \in Range(s) : x <= y
max(s) == CHOOSE x \in Range(s) : \A y \in Range(s) : x >= y

None == [kind |-> "None", dtype |-> "", shape |-> <<>>, flat |-> <<>>]
\* a Python list of numbers
pylist(flat) ==
    [kind |-> "list", dtype |-> "float", shape |-> <<Len(flat)>>,
     flat |-> flat]
\* a numpy array: element type, shape, and the elements in row-major order
ndarray(dtype, shape, flat) ==
    [kind |-> "ndarray", dtype |-> dtype, shape |-> shape, flat |-> flat]

frac(n, d) == [num |-> n, den |-> d]

SeqsUpTo(S, n) == UNION {[1..k -> S] : k \in 0..n}

\* shapes an array of n elements arrives in: flat, one column, one row
Shapes(n) == IF n = 0 THEN {<<0>>} ELSE {<<n>>, <<n, 1>>, <<1, n>>}

Arrays(n) ==
    UNION {{ndarray("float", s, f) : s \in Shapes(Len(f))} :
              f \in SeqsUpTo(Values, n)}

\* arrays whose elements are not numbers (strings); flat holds element codes
TextArrays == {ndarray("str", <<Len(f)>>, f) : f \in SeqsUpTo({0}, 1)}

\* what a caller may hand to create_histogram
Inputs ==
    {None} \cup {pylist(f) : f \in SeqsUpTo(Values, 1)} \cup TextArrays
    \cup Arrays(MaxLen)

\* one-dimensional non-empty numeric arrays of at most n samples
FlatArrays(n) ==
    {ndarray("float", <<Len(f)>>, f) : f \in SeqsUpTo(Values, n) \ {<<>>}}

size(data) == Len(data.flat)
len(data) == data.shape[1]
ravel(data) == data.flat

\* np.floor(a / b) and np.ceil(a / b) for b > 0
floor(a, b) == a \div b
ceil(a, b) == 0 - ((0 - a) \div b)

\* np.round(a / b), halves to the even neighbour
round(a, b) ==
    IF 2 * (a % b) < b THEN a \div b
    ELSE IF 2 * (a % b) > b THEN (a \div b) + 1
    ELSE IF (a \div b) % 2 = 0 THEN a \div b ELSE (a \div b) + 1

\* np.arange(start, stop, step): ceil((stop - start) / step) elements
arange(start, stop, step) ==
    Seq1(LAMBDA i : start + (i - 1) * step, ceil(stop - start, step))

\* np.histogram(a, bins=bins): bin k is [bins[k], bins[k+1]), the last bin
\* is closed; values outside the edges are not counted
histogram(a, bins) ==
    Seq1(LAMBDA k :
            Cardinality({j \in DOMAIN a :
                /\ bins[k] <= a[j]
                /\ IF k = Len(bins) - 1 THEN a[j] <= bins[k + 1]
                                        ELSE a[j] < bins[k + 1]}),
         Len(bins) - 1)

---------------------------------------------------------------------------
(* Histogram.compute_covering_bins and the constructor *)

\* min_boundary with edges centred on the data instead of snapped to the
\* grid (the binning this class replaced)
min_boundary_centred(min_data, bin_width) == min_data - bin_width \div 2

\* min_boundary with the division by bin_width forgotten
min_boundary_undivided(min_data, bin_width) == floor(min_data, 1) * bin_width

min_boundary(min_data, bin_width) == floor(min_data, bin_width) * bin_width

\* max_boundary rounding to the nearest grid line instead of up
max_boundary_rounded(max_data, bin_width) ==
    round(max_data, bin_width) * bin_width

max_boundary(max_data, bin_width) == ceil(max_data, bin_width) * bin_width

\* upper_boundary without the singular-value guard
upper_boundary_unguarded(lo, hi, bin_width) == hi

\* the upper boundary after the singular-value guard
upper_boundary(lo, hi, bin_width) == IF lo = hi THEN lo + bin_width ELSE hi

\* too_many_bins rejecting a histogram of exactly MAX_NUMBER_BINS bins
too_many_bins_inclusive(lo, hi, bin_width) ==
    hi - lo >= MAX_NUMBER_BINS * bin_width

\* num_bins > config.MAX_NUMBER_BINS, with num_bins = (hi - lo) / bin_width
too_many_bins(lo, hi, bin_width) == hi - lo > MAX_NUMBER_BINS * bin_width

\* the two closing assertions
covering_asserts(data, bin_boundaries, bin_width) ==
    /\ min(ravel(data)) >= bin_boundaries[1] - bin_width
    /\ max(ravel(data)) <= bin_boundaries[Len(bin_boundaries)] + bin_width

\* the bin-count check, the assignment of self.bin_boundaries and the
\* assertions, for the boundaries lo and hi
emit_boundaries(data, lo, hi, bin_width) ==
    IF too_many_bins(lo, hi, bin_width)
    THEN [raised |-> "Exception", bin_boundaries |-> Unset]
    ELSE IF hi + bin_width <= lo
    THEN [raised |-> "IndexError",
          bin_boundaries |-> Some(arange(lo, hi + bin_width, bin_width))]
    ELSE IF ~covering_asserts(data, arange(lo, hi + bin_width, bin_width),
                              bin_width)
    THEN [raised |-> "AssertionError",
          bin_boundaries |-> Some(arange(lo, hi + bin_width, bin_width))]
    ELSE [raised |-> "",
          bin_boundaries |-> Some(arange(lo, hi + bin_width, bin_width))]

\* [raised, bin_boundaries]: the exception that ends the call ("" when it
\* returns) and self.bin_boundaries as the call leaves it.  Dividing an
\* element that is no number by bin_width raises TypeError.
compute_covering_bins(data, bin_width) ==
    IF data.dtype # "float"
    THEN [raised |-> "TypeError", bin_boundaries |-> Unset]
    ELSE emit_boundaries(
             data,
             min_boundary(min(ravel(data)), bin_width),
             upper_boundary(min_boundary(min(ravel(data)), bin_width),
                            max_boundary(max(ravel(data)), bin_width),
                            bin_width),
             bin_width)

Slots == {"_bin_midpoints", "_counts", "_pdf", "_mean_per_video",
          "_std_per_video", "_num_samples", "_p_normal"}

\* the attributes __init__ assigns, before compute_covering_bins; nwrites
\* counts the assignments to each cache attribute over the object's life
fresh(data) ==
    [data |-> data,
     bin_boundaries |-> Unset,
     _bin_midpoints |-> Unset,
     _counts |-> Unset,
     _pdf |-> Unset,
     _mean_per_video |-> Unset,
     _std_per_video |-> Unset,
     _num_samples |-> Unset,
     _p_normal |-> Unset,
     nwrites |-> [s \in Slots |-> 0]]

\* self after compute_covering_bins ended as r
with_boundaries(self, r) ==
    [raised |-> r.raised,
     self |-> [self EXCEPT !.bin_boundaries = r.bin_boundaries]]

\* Histogram.__init__: [raised, self]
init(data) ==
    IF data.kind # "None"
    THEN with_boundaries(fresh(data),
                         compute_covering_bins(data, specs.bin_width))
    ELSE [raised |-> "", self |-> fresh(data)]

\* what create_histogram gives for the constructor's outcome r
constructed(r) ==
    [outcome |-> IF r.raised = "" THEN "instance" ELSE r.raised,
     self |-> Some(r.self)]

\* create_histogram without the isinstance test
create_histogram_any_sequence(data) ==
    IF data.kind = "None" \/ size(data) = 0
    THEN [outcome |-> "None", self |-> Unset]
    ELSE constructed(init(data))

\* Histogram.create_histogram: [outcome, self], the outcome being "None",
\* "instance" or the exception, self the object the constructor worked on
create_histogram(data) ==
    IF data.kind = "None" \/ data.kind # "ndarray" \/ size(data) = 0
    THEN [outcome |-> "None", self |-> Unset]
    ELSE constructed(init(data))

---------------------------------------------------------------------------
(* The lazily cached properties.  Each getter gives [self, raised, value]: *)
(* the object after the access, the exception raised ("" when none) and    *)
(* <<the value returned>>.                                                 *)

returns(self, slot) == [self |-> self, raised |-> "", value |-> self[slot]]
raises(self, exc) == [self |-> self, raised |-> exc, value |-> Unset]

\* self._slot = v
store(self, slot, v) ==
    [self EXCEPT ![slot] = Some(v), !.nwrites[slot] = @ + 1]

\* a per-video Histogram holds data; the merged one holds None
is_per_video(self) == self.data.kind # "None"

\* self.bin_boundaries[:-1] + self.specs.bin_width/2
midpoints_of(edges, bin_width) ==
    Seq1(LAMBDA i : edges[i] + bin_width \div 2, Len(edges) - 1)

get_bin_midpoints(self) ==
    IF IsSet(self._bin_midpoints) THEN returns(self, "_bin_midpoints")
    ELSE IF ~IsSet(self.bin_boundaries) THEN raises(self, "AttributeError")
    ELSE returns(store(self, "_bin_midpoints",
                       midpoints_of(self.bin_boundaries[1], specs.bin_width)),
                 "_bin_midpoints")

\* counts recomputed and stored on every access
get_counts_uncached(self) ==
    IF ~IsSet(self.bin_boundaries)
    THEN IF IsSet(self._counts) THEN returns(self, "_counts")
                                ELSE raises(self, "AttributeError")
    ELSE returns(store(self, "_counts",
                       histogram(ravel(self.data), self.bin_boundaries[1])),
                 "_counts")

get_counts(self) ==
    IF IsSet(self._counts) THEN returns(self, "_counts")
    ELSE IF ~IsSet(self.bin_boundaries) THEN raises(self, "AttributeError")
    ELSE returns(store(self, "_counts",
                       histogram(ravel(self.data), self.bin_boundaries[1])),
                 "_counts")

\* counts / total, entry by entry
normalised(counts, total) ==
    Seq1(LAMBDA k : frac(counts[k], total), Len(counts))

\* [none, p]: None when the counts sum to zero, else counts / sum(counts)
pdf_of(counts) ==
    IF SumSeq(counts) = 0
    THEN [none |-> TRUE, p |-> <<>>]
    ELSE [none |-> FALSE, p |-> normalised(counts, SumSeq(counts))]

\* the pdf branch that computes, once self.counts was read as c
pdf_from(c) ==
    IF c.raised # "" THEN raises(c.self, c.raised)
    ELSE returns(store(c.self, "_pdf", pdf_of(c.value[1])), "_pdf")

get_pdf(self) ==
    IF IsSet(self._pdf) THEN returns(self, "_pdf")
    ELSE pdf_from(get_counts(self))

\* np.mean(self.data): the mean of all elements, whatever the shape
get_mean_per_video(self) ==
    IF IsSet(self._mean_per_video) THEN returns(self, "_mean_per_video")
    ELSE IF ~is_per_video(self) THEN raises(self, "TypeError")
    ELSE returns(store(self, "_mean_per_video",
                       frac(SumSeq(ravel(self.data)), size(self.data))),
                 "_mean_per_video")

\* sum((data - mean)**2) down column j of the first i rows, times mean.den^2
RECURSIVE squared_deviations(_, _, _, _)
squared_deviations(data, mean, i, j) ==
    IF i = 0 THEN 0
    ELSE (mean.den * data.flat[(i - 1) * (size(data) \div len(data)) + j]
            - mean.num)
         * (mean.den * data.flat[(i - 1) * (size(data) \div len(data)) + j]
            - mean.num)
         + squared_deviations(data, mean, i - 1, j)

\* sqrt((1/(n-1)) * sum((data - mean)**2)) with n = len(data) and the builtin
\* sum, which adds the rows of a two-dimensional array: [scalar, sq], sq the
\* squares of the result's entries
std_of(data, mean) ==
    [scalar |-> Len(data.shape) = 1,
     sq |-> Seq1(LAMBDA j :
                    frac(squared_deviations(data, mean, len(data), j),
                         mean.den * mean.den * (len(data) - 1)),
                 size(data) \div len(data))]

\* the std branch that computes, once self.mean_per_video was read as m
std_from(m) ==
    returns(store(m.self, "_std_per_video",
                  std_of(m.self.data, m.value[1])),
            "_std_per_video")

get_std_per_video(self) ==
    IF IsSet(self._std_per_video) THEN returns(self, "_std_per_video")
    ELSE IF ~is_per_video(self) THEN raises(self, "TypeError")
    ELSE IF len(self.data) = 1
    THEN returns(store(self, "_std_per_video",
                       [scalar |-> TRUE, sq |-> <<frac(0, 1)>>]),
                 "_std_per_video")
    ELSE std_from(get_mean_per_video(self))

get_num_samples(self) ==
    IF IsSet(self._num_samples) THEN returns(self, "_num_samples")
    ELSE IF ~is_per_video(self) THEN raises(self, "TypeError")
    ELSE returns(store(self, "_num_samples", len(self.data)), "_num_samples")

\* the p_normal branch that computes, once num_valid_measurements read
\* self.mean_per_video as m.  sum(~np.isnan(mean)) needs an array: on a
\* per-video Histogram the mean is a scalar and the sum raises.  No mean is
\* NaN here, so every entry of a merged Histogram's means is valid.
p_normal_from(m) ==
    IF m.raised # "" THEN raises(m.self, m.raised)
    ELSE IF is_per_video(m.self) THEN raises(m.self, "TypeError")
    ELSE IF Len(m.value[1]) < 3
    THEN returns(store(m.self, "_p_normal", [nan |-> TRUE, shapiro |-> <<>>]),
                 "_p_normal")
    ELSE returns(store(m.self, "_p_normal",
                       [nan |-> FALSE, shapiro |-> m.value[1]]),
                 "_p_normal")

get_p_normal(self) ==
    IF IsSet(self._p_normal) THEN returns(self, "_p_normal")
    ELSE p_normal_from(get_mean_per_video(self))

get(self, slot) ==
    CASE slot = "_bin_midpoints"  -> get_bin_midpoints(self)
      [] slot = "_counts"         -> get_counts(self)
      [] slot = "_pdf"            -> get_pdf(self)
      [] slot = "_mean_per_video" -> get_mean_per_video(self)
      [] slot = "_std_per_video"  -> get_std_per_video(self)
      [] slot = "_num_samples"    -> get_num_samples(self)
      [] slot = "_p_normal"       -> get_p_normal(self)

---------------------------------------------------------------------------
(* Histogram.merged_histogram_factory *)

first_bin_midpoints(hs) ==
    Seq1(LAMBDA i : hs[i]._bin_midpoints[1][1], Len(hs))

last_bin_midpoints(hs) ==
    Seq1(LAMBDA i : hs[i]._bin_midpoints[1][Len(hs[i]._bin_midpoints[1])],
         Len(hs))

num_bins(hs) == Seq1(LAMBDA i : Len(hs[i]._bin_midpoints[1]), Len(hs))

\* np.arange(min_bin_midpoint, max_bin_midpoint + cur_bin_width, step)
merged_bin_midpoints(min_bin_midpoint, max_bin_midpoint, cur_bin_width) ==
    arange(min_bin_midpoint, max_bin_midpoint + cur_bin_width, cur_bin_width)

\* start_indices measured from zero instead of from min_bin_midpoint
start_indices_absolute(firsts, min_bin_midpoint, cur_bin_width) ==
    Seq1(LAMBDA i : round(firsts[i], cur_bin_width), Len(firsts))

\* ((first_bin_midpoints - min_bin_midpoint) / cur_bin_width).round()
start_indices(firsts, min_bin_midpoint, cur_bin_width) ==
    Seq1(LAMBDA i : round(firsts[i] - min_bin_midpoint, cur_bin_width),
         Len(firsts))

\* end_indices = start_indices + num_bins
end_indices(starts, nbins) ==
    Seq1(LAMBDA i : starts[i] + nbins[i], Len(starts))

\* the slice row[start:end] of a row of n columns, as numpy clips it:
\* the columns start+1 .. end (1-based) that exist
slice_columns(start, end, n) ==
    {k \in 1..n : start < k /\ k <= end}

\* row[start:end] = values fits when the slice has len(values) columns, or
\* values has one element (broadcast)
slice_fits(start, end, n, values) ==
    \/ Cardinality(slice_columns(start, end, n)) = Len(values)
    \/ Len(values) = 1

\* slice_assign writing to row[start+1:end+1]
slice_assign_shifted(start, end, n, values) ==
    Seq1(LAMBDA k : IF start + 1 < k /\ k <= end + 1
                    THEN IF Len(values) = 1 THEN values[1]
                                            ELSE values[k - start - 1]
                    ELSE 0,
         n)

\* a zero row of n columns after row[start:end] = values
slice_assign(start, end, n, values) ==
    Seq1(LAMBDA k : IF start < k /\ k <= end
                    THEN IF Len(values) = 1 THEN values[1]
                                            ELSE values[k - start]
                    ELSE 0,
         n)

\* the builtin sum(matrix, 0) adds the rows: the column sums
column_sums(matrix, n) ==
    Seq1(LAMBDA k : SumSeq(Seq1(LAMBDA i : matrix[i][k], Len(matrix))), n)

\* the product of the entries of s
RECURSIVE Product(_)
Product(s) == IF s = <<>> THEN 1 ELSE Head(s) * Product(Tail(s))

\* the pdf as the average of the inputs' own pdfs counts[i] / num_samples[i]
averaged_pdf(new_counts, num_samples, n) ==
    [none |-> FALSE,
     p |-> Seq1(LAMBDA k :
                   frac(SumSeq(Seq1(LAMBDA i :
                                       new_counts[i][k]
                                       * (Product(num_samples)
                                          \div num_samples[i]),
                                    Len(new_counts))),
                        Len(new_counts) * Product(num_samples)),
                n)]

\* merged_hist._pdf = sum(merged_hist.counts, 0) / sum(merged_hist.num_samples)
merged_pdf(new_counts, num_samples, n) ==
    [none |-> FALSE,
     p |-> normalised(column_sums(new_counts, n), SumSeq(num_samples))]

\* read_by_merge reading each input's pdf as well
read_by_merge_and_pdf(x) ==
    get_pdf(
        get_std_per_video(
            get_mean_per_video(
                get_num_samples(
                    get_counts(get_bin_midpoints(x).self).self).self).self
        ).self).self

\* every derived property the factory reads from input x, in reading order
read_by_merge(x) ==
    get_std_per_video(
        get_mean_per_video(
            get_num_samples(
                get_counts(get_bin_midpoints(x).self).self).self).self).self

\* the final properties: the merged object from the inputs as read (done),
\* the new grid and the counts matrix
update_final(done, new_bin_midpoints, new_counts) ==
    [raised |-> "",
     merged |-> Some(
        store(store(store(store(store(store(fresh(None),
            "_bin_midpoints", new_bin_midpoints),
            "_counts", new_counts),
            "_num_samples",
                Seq1(LAMBDA i : done[i]._num_samples[1], Len(done))),
            "_mean_per_video",
                Seq1(LAMBDA i : done[i]._mean_per_video[1], Len(done))),
            "_std_per_video",
                Seq1(LAMBDA i : done[i]._std_per_video[1], Len(done))),
            "_pdf",
                merged_pdf(new_counts,
                           Seq1(LAMBDA i : done[i]._num_samples[1], Len(done)),
                           Len(new_bin_midpoints)))),
     histograms |-> done]

\* the loop that fills new_counts from the inputs hc (counts read); the
\* first slice that does not fit raises and ends the call
fill_counts(hc, new_bin_midpoints, starts, ends) ==
    IF \E i \in DOMAIN hc :
           ~slice_fits(starts[i], ends[i], Len(new_bin_midpoints),
                       hc[i]._counts[1])
    THEN [raised |-> "ValueError", merged |-> Unset, histograms |-> hc]
    ELSE update_final(
             Seq1(LAMBDA i : read_by_merge(hc[i]), Len(hc)),
             new_bin_midpoints,
             Seq1(LAMBDA i : slice_assign(starts[i], ends[i],
                                          Len(new_bin_midpoints),
                                          hc[i]._counts[1]),
                  Len(hc)))

\* the alignment of all bins, for the inputs hs (bin_midpoints read)
align_bins(hs, firsts, min_bin_midpoint, cur_bin_width) ==
    fill_counts(
        Seq1(LAMBDA i : get_counts(hs[i]).self, Len(hs)),
        merged_bin_midpoints(min_bin_midpoint, max(last_bin_midpoints(hs)),
                             cur_bin_width),
        start_indices(firsts, min_bin_midpoint, cur_bin_width),
        end_indices(start_indices(firsts, min_bin_midpoint, cur_bin_width),
                    num_bins(hs)))

\* the inputs once num_bins and first_bin_midpoint were read
with_bin_midpoints(histograms) ==
    Seq1(LAMBDA i : get_bin_midpoints(histograms[i]).self, Len(histograms))

\* [raised, merged, histograms]: the exception ("" when none), <<the merged
\* Histogram>> and the input objects as the call leaves them
merged_histogram_factory(histograms) ==
    align_bins(with_bin_midpoints(histograms),
               first_bin_midpoints(with_bin_midpoints(histograms)),
               min(first_bin_midpoints(with_bin_midpoints(histograms))),
               specs.bin_width)

---------------------------------------------------------------------------
(* The operations of a caller *)

Result(op, data, outcome, self) ==
    [op |-> op, data |-> data, outcome |-> outcome, self |-> self]

Init ==
    /\ specs \in [bin_width : BinWidths]
    /\ hists = <<>>
    /\ merged = Unset
    /\ ret = Result("", None, "", Unset)

\* Histogram.create_histogram(data, specs, ...); the instance joins hists
CreateHistogram(data) ==
    \E r \in {create_histogram(data)} :
        /\ hists' = IF r.outcome = "instance"
                    THEN Append(hists, r.self[1]) ELSE hists
        /\ ret' = Result("create_histogram", data, r.outcome, r.self)
        /\ UNCHANGED <<specs, merged>>

\* how a property read ended: from the cache, computed, or the exception
ReadOutcome(self, slot, r) ==
    IF r.raised # "" THEN r.raised
    ELSE IF IsSet(self[slot]) THEN "cached" ELSE "computed"

\* reading property slot of per-video Histogram i
Access(i, slot) ==
    \E r \in {get(hists[i], slot)} :
        /\ hists' = [hists EXCEPT ![i] = r.self]
        /\ ret' = Result("read", None, ReadOutcome(hists[i], slot, r), Unset)
        /\ UNCHANGED <<specs, merged>>

\* reading property slot of the merged Histogram
AccessMerged(slot) ==
    /\ IsSet(merged)
    /\ \E r \in {get(merged[1], slot)} :
           /\ merged' = Some(r.self)
           /\ ret' = Result("read", None, ReadOutcome(merged[1], slot, r),
                            Unset)
    /\ UNCHANGED <<specs, hists>>

\* Histogram.merged_histogram_factory(hists), called once on the list
Merge ==
    /\ hists # <<>>
    /\ ~IsSet(merged)
    /\ \E r \in {merged_histogram_factory(hists)} :
           /\ hists' = r.histograms
           /\ merged' = r.merged
           /\ ret' = Result("merged_histogram_factory", None,
                            IF r.raised = "" THEN "instance" ELSE r.raised,
                            r.merged)
    /\ UNCHANGED specs

\* one Histogram at a time: construction from any input, every property
Create == hists = <<>> /\ \E data \in Inputs : CreateHistogram(data)

Read == \E i \in DOMAIN hists : \E slot \in Slots : Access(i, slot)

ReadMerged == \E slot \in Slots : AccessMerged(slot)

Next == Create \/ Read \/ Merge \/ ReadMerged

Spec == Init /\ [][Next]_vars

\* several Histograms sharing specs, built from flat arrays, then merged
samples_held == SumSeq(Seq1(LAMBDA i : size(hists[i].data), Len(hists)))

CreateForMerge ==
    /\ ~IsSet(merged)
    /\ samples_held < MaxSamples
    /\ \E data \in FlatArrays(MaxSamples - samples_held) :
           CreateHistogram(data)

NextMerge == CreateForMerge \/ Merge \/ ReadMerged

SpecMerge == Init /\ [][NextMerge]_vars

---------------------------------------------------------------------------
(* Properties *)

\* a non-empty numeric ndarray: what the constructor can bin
Binnable(data) ==
    data.kind = "ndarray" /\ data.dtype = "float" /\ size(data) > 0

\* the boundaries compute_covering_bins is to resolve for data, from the
\* data alone: floor and ceil of min and max to the grid, the upper one
\* raised by one width when both coincide
SnappedLow(data, w) == (min(ravel(data)) \div w) * w
SnappedHigh(data, w) == (0 - ((0 - max(ravel(data))) \div w)) * w
ResolvedHigh(data, w) ==
    IF SnappedLow(data, w) = SnappedHigh(data, w)
    THEN SnappedLow(data, w) + w ELSE SnappedHigh(data, w)
ResolvedBins(data, w) == (ResolvedHigh(data, w) - SnappedLow(data, w)) \div w

Created == ret.op = "create_histogram"
MergedNow == IsSet(merged)

\* C1: for every per-video Histogram whose counts and num_samples were read,
\* sum(counts) = len(data) = num_samples.
C1_CountConservation ==
    \A i \in DOMAIN hists :
        (IsSet(hists[i]._counts) /\ IsSet(hists[i]._num_samples)) =>
            /\ SumSeq(hists[i]._counts[1]) = len(hists[i].data)
            /\ len(hists[i].data) = hists[i]._num_samples[1]

\* C2: after merged_histogram_factory, row i of the merged counts matrix
\* sums to sum(histograms[i].counts), for every input i.
C2_MergeRowSums ==
    /\ ret.op = "merged_histogram_factory" => ret.outcome = "instance"
    /\ MergedNow =>
        /\ Len(merged[1]._counts[1]) = Len(hists)
        /\ \A i \in DOMAIN hists :
               SumSeq(merged[1]._counts[1][i]) = SumSeq(hists[i]._counts[1])

\* a merge of several inputs that start at different columns, one of them
\* with more than one bin
C2_Witness ==
    /\ MergedNow
    /\ \E i, j \in DOMAIN hists :
           /\ hists[i].bin_boundaries[1][1] < hists[j].bin_boundaries[1][1]
           /\ Len(hists[j]._counts[1]) >= 2

\* the merge example of the documentation, in quanta of 0.5 (bin_width 2):
\* A midpoints [1.5,2.5,3.5] counts [2,3,1], B midpoints [2.5,3.5,4.5,5.5]
\* counts [1,4,2,0]
MergeExample ==
    /\ merged_bin_midpoints(3, 11, 2) = <<3, 5, 7, 9, 11>>
    /\ start_indices(<<3, 5>>, 3, 2) = <<0, 1>>
    /\ end_indices(<<0, 1>>, <<3, 4>>) = <<3, 5>>
    /\ slice_assign(0, 3, 5, <<2, 3, 1>>) = <<2, 3, 1, 0, 0>>
    /\ slice_assign(1, 5, 5, <<1, 4, 2, 0>>) = <<0, 1, 4, 2, 0>>

\* C3: the merged bin_midpoints are the grid from the smallest first to the
\* largest last midpoint in steps of bin_width, every row has one column
\* per midpoint, and row i is histograms[i].counts on the slice that starts
\* at (first_bin_midpoint_i - min_bin_midpoint) / bin_width, inside the
\* columns, and zero elsewhere.
C3_MergeAlignment ==
    /\ MergeExample
    /\ ret.op = "merged_histogram_factory" => ret.outcome = "instance"
    /\ MergedNow =>
        LET w == specs.bin_width
            mids(i) == hists[i]._bin_midpoints[1]
            lo == min(Seq1(LAMBDA i : mids(i)[1], Len(hists)))
            hi == max(Seq1(LAMBDA i : mids(i)[Len(mids(i))], Len(hists)))
            grid == merged[1]._bin_midpoints[1]
            row(i) == merged[1]._counts[1][i]
            start(i) == (mids(i)[1] - lo) \div w
        IN  /\ (hi - lo) % w = 0
            /\ Len(grid) = (hi - lo) \div w + 1
            /\ \A k \in DOMAIN grid : grid[k] = lo + (k - 1) * w
            /\ \A i \in DOMAIN hists :
                   /\ Len(row(i)) = Len(grid)
                   /\ (mids(i)[1] - lo) % w = 0
                   /\ start(i) >= 0
                   /\ start(i) + Len(mids(i)) <= Len(grid)
                   /\ Len(hists[i]._counts[1]) = Len(mids(i))
                   /\ \A k \in DOMAIN grid :
                          row(i)[k] =
                              IF start(i) < k /\ k <= start(i) + Len(mids(i))
                              THEN hists[i]._counts[1][k - start(i)]
                              ELSE 0

\* a merge in which some input starts after the first column and some input
\* ends before the last one
C3_Witness ==
    /\ MergedNow
    /\ \E i, j \in DOMAIN hists :
           /\ merged[1]._counts[1][i][1] = 0
           /\ Len(hists[i]._counts[1]) >= 2
           /\ hists[j]._bin_midpoints[1][Len(hists[j]._bin_midpoints[1])]
                < merged[1]._bin_midpoints[1][Len(merged[1]._bin_midpoints[1])]

\* C4: the merged pdf is the combined density, pdf[k] * sum(num_samples) =
\* sum over i of counts[i, k], and the merged num_samples, mean_per_video
\* and std_per_video hold the inputs' values in the order of the list.
C4_CombinedDensity ==
    MergedNow =>
        LET m == merged[1]
            n == Len(m._bin_midpoints[1])
        IN  /\ ~m._pdf[1].none
            /\ Len(m._pdf[1].p) = n
            /\ \A k \in 1..n :
                   /\ m._pdf[1].p[k].den > 0
                   /\ m._pdf[1].p[k].num * SumSeq(m._num_samples[1])
                        = SumSeq(Seq1(LAMBDA i : m._counts[1][i][k],
                                      Len(hists)))
                          * m._pdf[1].p[k].den
            /\ Len(m._num_samples[1]) = Len(hists)
            /\ Len(m._mean_per_video[1]) = Len(hists)
            /\ Len(m._std_per_video[1]) = Len(hists)
            /\ \A i \in DOMAIN hists :
                   /\ m._num_samples[1][i] = get_num_samples(hists[i]).value[1]
                   /\ m._num_samples[1][i] = len(hists[i].data)
                   /\ m._mean_per_video[1][i]
                        = get_mean_per_video(hists[i]).value[1]
                   /\ m._mean_per_video[1][i]
                        = frac(SumSeq(hists[i].data.flat),
                               Len(hists[i].data.flat))
                   /\ m._std_per_video[1][i]
                        = get_std_per_video(hists[i]).value[1]

\* a merge of videos whose combined density is not the average of their
\* densities, and whose means differ
C4_Witness ==
    /\ MergedNow
    /\ Len(hists) >= 2
    /\ merged[1]._mean_per_video[1][1] # merged[1]._mean_per_video[1][2]
    /\ \E k \in DOMAIN merged[1]._bin_midpoints[1] :
           LET a == averaged_pdf(merged[1]._counts[1],
                                 merged[1]._num_samples[1],
                                 Len(merged[1]._bin_midpoints[1])).p[k]
               c == merged[1]._pdf[1].p[k]
           IN  a.num * c.den # c.num * a.den

\* C5: every edge of every bin_boundaries is a multiple of bin_width,
\* consecutive edges differ by bin_width, and where the boundary ranges of
\* two histograms overlap their edges coincide.
C5_GridAlignment ==
    /\ \A i \in DOMAIN hists :
           LET e == hists[i].bin_boundaries[1]
           IN  /\ \A k \in DOMAIN e : e[k] % specs.bin_width = 0
               /\ \A k \in 1..(Len(e) - 1) : e[k + 1] - e[k] = specs.bin_width
    /\ \A i, j \in DOMAIN hists :
           LET e == hists[i].bin_boundaries[1]
               f == hists[j].bin_boundaries[1]
           IN  \A k \in DOMAIN e :
                   (f[1] <= e[k] /\ e[k] <= f[Len(f)]) => e[k] \in Range(f)

\* two histograms, one starting inside the other's boundary range, built
\* from data off the grid
C5_Witness ==
    \E i, j \in DOMAIN hists :
        LET e == hists[i].bin_boundaries[1]
            f == hists[j].bin_boundaries[1]
        IN  /\ e[1] < f[1]
            /\ f[1] < e[Len(e)]
            /\ min(hists[i].data.flat) % specs.bin_width # 0

\* C6: whenever compute_covering_bins does not raise the bin-count error on
\* a non-empty array, it returns with both closing assertions true:
\* min(data) >= bin_boundaries[0] - bin_width and
\* max(data) <= bin_boundaries[-1] + bin_width.
C6_CoveringAsserts ==
    (Created /\ Binnable(ret.data) /\ ret.outcome # "Exception") =>
        /\ ret.outcome = "instance"
        /\ IsSet(ret.self[1].bin_boundaries)
        /\ LET e == ret.self[1].bin_boundaries[1]
           IN  /\ Len(e) >= 1
               /\ min(ravel(ret.data)) >= e[1] - specs.bin_width
               /\ max(ravel(ret.data)) <= e[Len(e)] + specs.bin_width

\* a construction from data strictly inside its outer bins
C6_Witness ==
    /\ Created
    /\ ret.outcome = "instance"
    /\ min(ravel(ret.data)) > ret.self[1].bin_boundaries[1][1]
    /\ max(ravel(ret.data))
         < ret.self[1].bin_boundaries[1][Len(ret.self[1].bin_boundaries[1])]

\* the example of the documentation in quanta of 0.01: min -65.4, max 20.01,
\* bin_width 1 give boundaries from -66 to 21
SnapExample ==
    /\ min_boundary(0 - 6540, 100) = 0 - 6600
    /\ max_boundary(2001, 100) = 2100
    /\ upper_boundary(0 - 6600, 2100, 100) = 2100
    /\ arange(0 - 6600, 2100 + 100, 100)[1] = 0 - 6600
    /\ Len(arange(0 - 6600, 2100 + 100, 100)) = 88
    /\ arange(0 - 6600, 2100 + 100, 100)[88] = 2100

ReadsOnce(self, s, r) ==
    IF IsSet(self[s])
    THEN r = [self |-> self, raised |-> "", value |-> self[s]]
    ELSE r.raised = "" =>
             /\ IsSet(r.value)
             /\ r.value = r.self[s]
             /\ r.self.nwrites[s] = 1
             /\ \A t \in Slots \ {s} : IsSet(self[t]) => r.self[t] = self[t]

\* what C8 asks of one Histogram object
LazyOnce(self) ==
    \A s \in Slots :
        /\ self.nwrites[s] <= 1
        /\ IsSet(self[s]) <=> self.nwrites[s] = 1
        /\ ReadsOnce(self, s, get(self, s))

\* C8: every derived property is computed on its first access only: its
\* cache slot is written at most once, the first access returns the value
\* it stores, and every later access returns that stored value without
\* computing or writing anything.
C8_LazyOnce ==
    /\ \A i \in DOMAIN hists : LazyOnce(hists[i])
    /\ \A i \in DOMAIN merged : LazyOnce(merged[i])

\* a property was read again after it was cached, on a Histogram with
\* several cached properties
C8_Witness ==
    /\ ret.op = "read"
    /\ ret.outcome = "cached"
    /\ \E i \in DOMAIN hists :
           /\ hists[i].nwrites["_counts"] = 1
           /\ hists[i].nwrites["_pdf"] = 1
           /\ hists[i].nwrites["_std_per_video"] = 1

\* C9: constructing a per-video Histogram raises exactly when the resolved
\* bin count exceeds MAX_NUMBER_BINS; then bin_boundaries is not assigned
\* and no Histogram exists; otherwise construction succeeds; so every
\* Histogram has at most MAX_NUMBER_BINS bins.
C9_BinLimit ==
    /\ (Created /\ Binnable(ret.data)) =>
           /\ ret.outcome = "Exception"
                <=> ResolvedBins(ret.data, specs.bin_width) > MAX_NUMBER_BINS
           /\ ret.outcome = "Exception" =>
                  ~IsSet(ret.self[1].bin_boundaries) /\ hists = <<>>
           /\ ret.outcome # "Exception" =>
                  /\ ret.outcome = "instance"
                  /\ hists = <<ret.self[1]>>
    /\ \A i \in DOMAIN hists :
           /\ Len(hists[i].bin_boundaries[1]) - 1 <= MAX_NUMBER_BINS
           /\ Len(hists[i].bin_boundaries[1]) - 1
                = ResolvedBins(hists[i].data, specs.bin_width)

\* a construction refused for one bin too many
C9_Witness ==
    /\ Created
    /\ ret.outcome = "Exception"
    /\ ResolvedBins(ret.data, specs.bin_width) = MAX_NUMBER_BINS + 1

\* C10 as stated: create_histogram returns None when data is None, is not a
\* numeric array or is empty, and in every other case returns a Histogram
\* with bin_boundaries populated.
C10_Original ==
    Created =>
        IF ~Binnable(ret.data)
        THEN ret.outcome = "None"
        ELSE ret.outcome = "instance" /\ IsSet(ret.self[1].bin_boundaries)

\* C10 amended: create_histogram returns None, without constructing, when
\* data is None, is not an ndarray or has zero elements; on any other
\* input it runs the constructor and returns its Histogram, bin_boundaries
\* populated, unless the constructor raises, which it does with a TypeError
\* when the elements are not numbers and, on finite numbers, with the
\* bin-count error when the resolved bin count exceeds MAX_NUMBER_BINS.
C10_Amended ==
    Created =>
        IF ret.data.kind # "ndarray" \/ size(ret.data) = 0
        THEN ret.outcome = "None" /\ ~IsSet(ret.self) /\ hists = <<>>
        ELSE IF ret.data.dtype # "float"
        THEN ret.outcome = "TypeError" /\ hists = <<>>
        ELSE IF ResolvedBins(ret.data, specs.bin_width) > MAX_NUMBER_BINS
        THEN ret.outcome = "Exception" /\ hists = <<>>
        ELSE /\ ret.outcome = "instance"
             /\ IsSet(ret.self[1].bin_boundaries)
             /\ hists = <<ret.self[1]>>

\* create_histogram was given an empty ndarray and returned None
C10_Witness ==
    /\ Created
    /\ ret.data.kind = "ndarray"
    /\ size(ret.data) = 0
    /\ ret.outcome = "None"

\* the standard deviation 0 that std_per_video stores for one sample
ZeroStd == [scalar |-> TRUE, sq |-> <<frac(0, 1)>>]

\* all elements of data equal one value, a multiple of w
SingleGridValue(data, w) ==
    /\ \A j \in DOMAIN data.flat : data.flat[j] = data.flat[1]
    /\ data.flat[1] % w = 0

\* the example of the documentation in quanta of 0.5: data = [5.0],
\* bin_width = 1 give boundaries [5, 6], the sample counted, std 0
DegenerateExample ==
    /\ compute_covering_bins(ndarray("float", <<1>>, <<10>>), 2)
         = [raised |-> "", bin_boundaries |-> Some(<<10, 12>>)]
    /\ histogram(<<10>>, <<10, 12>>) = <<1>>

\* C11: every constructed per-video Histogram has bin_boundaries strictly
\* increasing, of length >= 2 and one longer than counts; when all data
\* equal one multiple v of bin_width the boundaries are [v, v + bin_width]
\* and every sample is counted in that bin; for a single sample
\* std_per_video is 0.
C11_DegenerateBins ==
    /\ DegenerateExample
    /\ \A i \in DOMAIN hists :
           LET self == hists[i]
               e == self.bin_boundaries[1]
               w == specs.bin_width
           IN  /\ Len(e) >= 2
               /\ \A k \in 1..(Len(e) - 1) : e[k] < e[k + 1]
               /\ get_counts(self).raised = ""
               /\ Len(e) = Len(get_counts(self).value[1]) + 1
               /\ SingleGridValue(self.data, w) =>
                      /\ e = <<self.data.flat[1], self.data.flat[1] + w>>
                      /\ get_counts(self).value[1] = <<size(self.data)>>
               /\ size(self.data) = 1 =>
                      /\ get_std_per_video(self).raised = ""
                      /\ get_std_per_video(self).value[1] = ZeroStd
                      /\ IsSet(self._std_per_video)
                             => self._std_per_video[1] = ZeroStd

\* a Histogram of one sample on the grid, below zero, whose counts and
\* std_per_video were read
C11_Witness ==
    \E i \in DOMAIN hists :
        /\ size(hists[i].data) = 1
        /\ SingleGridValue(hists[i].data, specs.bin_width)
        /\ hists[i].data.flat[1] < 0
        /\ hists[i].nwrites["_counts"] = 1
        /\ hists[i].nwrites["_std_per_video"] = 1

\* a step that is a call of merged_histogram_factory
MergeStep == ~IsSet(merged) /\ ret'.op = "merged_histogram_factory"

\* the cache slots of the properties the factory reads from its inputs
MergeReads == {"_bin_midpoints", "_counts", "_num_samples",
               "_mean_per_video", "_std_per_video"}

\* C12 as stated: after merged_histogram_factory every input Histogram,
\* its cache slots included, is as it was before the call.
C12_Original == [][MergeStep => hists' = hists]_vars

\* C12 amended: merged_histogram_factory returns a new Histogram and leaves
\* specs, the list and every input's data and bin_boundaries as they were;
\* of an input's cache slots it leaves every slot that was set, and the
\* pdf and p_normal slots, as they were, and it fills each unset slot of
\* bin_midpoints, counts, num_samples, mean_per_video and std_per_video,
\* once, with the value a read of that property on the input returns.
C12_Amended ==
    [][MergeStep =>
        /\ IsSet(merged')
        /\ specs' = specs
        /\ Len(hists') = Len(hists)
        /\ \A i \in DOMAIN hists :
               /\ hists'[i].data = hists[i].data
               /\ hists'[i].bin_boundaries = hists[i].bin_boundaries
               /\ \A s \in Slots :
                      IF IsSet(hists[i][s]) \/ s \notin MergeReads
                      THEN /\ hists'[i][s] = hists[i][s]
                           /\ hists'[i].nwrites[s] = hists[i].nwrites[s]
                      ELSE /\ hists'[i].nwrites[s] = 1
                           /\ get(hists[i], s).raised = ""
                           /\ hists'[i][s] = get(hists[i], s).value]_vars

\* a merge has returned, of an input whose pdf (and so counts) had been
\* read beforehand and whose bin_midpoints the merge had to compute over
\* several bins
C12_Witness ==
    /\ ret.op = "merged_histogram_factory"
    /\ IsSet(merged)
    /\ \E i \in DOMAIN hists :
           /\ IsSet(hists[i]._pdf)
           /\ ~IsSet(hists[i]._p_normal)
           /\ Len(hists[i]._bin_midpoints[1]) >= 2

====
